---- MODULE Spec2Model ----
(***************************************************************************)
(* One-shot future of github.com/ongniud/future, in its two variants:      *)
(*   pkg = "A"       package A      (src/README.md 137-254), Result()      *)
(*   pkg = "future"  package future (src/future.go),         Await()       *)
(* A behaviour follows one future object: its construction, the goroutine  *)
(* that executes the work function, the callers of Result()/Await(), the   *)
(* callers of Abort(), one observer using Ready()/Done(), and the parent   *)
(* context given to NewFuture.                                             *)
(***************************************************************************)
EXTENDS Integers, FiniteSets, Sequences, TLC

\* ---------------------------------------------------------------- bounds
NumWaiters == 2
NumAborters == 2

Waiters == 1..NumWaiters
Aborters == 1..NumAborters
\* goroutine 0 is the one NewFuture spawns, goroutine w the one caller w spawns
Runners == 0..NumWaiters

\* ---------------------------------------------------------------- values
Nil == "nil"
Canceled == "context canceled"
DeadlineExceeded == "context deadline exceeded"
WorkErr == "boom"
Values == {"42"}
PanicMsgs == {"unexpected error"}
Pkgs == {"A", "future"}
Errs == {Nil, WorkErr, Canceled, DeadlineExceeded}

\* the panic value stored without the prefix
PanicErrBare(m) == m

\* fmt.Errorf("panic occurred: %v", r)
PanicErr(m) == "panic occurred: " \o m

VARIABLES
    pkg,          \* which variant the future belongs to
    constructed,  \* NewFuture has returned
    crashed,      \* an unrecovered panic has terminated the process
    lazy,         \* Future.lazy
    ctxErr,       \* f.ctx.Err(): Nil while f.ctx.Done() is open
    once,         \* Future.once: "free", "running" (Do executing f), "done"
    closed,       \* Future.closed (package A): the sync.Once of markDone
    done,         \* the done channel is closed
    mu,           \* Future.mu (package A): <<>> when free, else the holder
    item,         \* Future.item (package A)
    res,          \* Future.res  (package future), Nil while nothing is stored
    err,          \* Future.err
    rpc,          \* position of each execution goroutine
    tres, terr,   \* res, err := f.task(f.ctx), locals of the goroutine
    tpanic,       \* the value the work function panicked with, Nil if none
    wpc,          \* position of each Result()/Await() caller
    ret,          \* what each Result()/Await() call returned
    lateCall,     \* the call was made after completion followed by Abort()
    apc,          \* position of each Abort() caller
    aborted,      \* "no", "early" (cancel before completion), "late"
    extCancelled, \* the parent context was cancelled or timed out
    obs,          \* the observer's last step: "none"; Ready() answered
                  \* "ready" / "notready"; Done() gave the channel, "held";
                  \* a receive from that channel returned, "signaled"
    calls,        \* number of invocations of the work function
    writes,       \* number of assignments to the result slot (item, err)
    closes        \* number of executions of close(f.done)

vars == <<pkg, constructed, crashed, lazy, ctxErr, once, closed, done, mu,
          item, res, err, rpc, tres, terr, tpanic, wpc, ret, lateCall, apc,
          aborted, extCancelled, obs, calls, writes, closes>>

ctlVars == <<pkg, constructed, crashed, lazy>>
slotVars == <<item, res, err>>
taskVars == <<tres, terr, tpanic>>
waitVars == <<wpc, ret, lateCall>>

NoRet == <<"none", "none">>

\* the zero Future of either package, before NewFuture fills it in
Init ==
    /\ pkg \in Pkgs
    /\ constructed = FALSE
    /\ crashed = FALSE
    /\ lazy = FALSE
    /\ ctxErr = Nil
    /\ once = "free"
    /\ closed = FALSE
    /\ done = FALSE
    /\ mu = <<>>
    /\ item = Nil
    /\ res = Nil
    /\ err = Nil
    /\ rpc = [r \in Runners |-> "idle"]
    /\ tres = [r \in Runners |-> Nil]
    /\ terr = [r \in Runners |-> Nil]
    /\ tpanic = [r \in Runners |-> Nil]
    /\ wpc = [w \in Waiters |-> "idle"]
    /\ ret = [w \in Waiters |-> NoRet]
    /\ lateCall = [w \in Waiters |-> FALSE]
    /\ apc = [a \in Aborters |-> "idle"]
    /\ aborted = "no"
    /\ extCancelled = FALSE
    /\ obs = "none"
    /\ calls = 0
    /\ writes = 0
    /\ closes = 0

\* the process is running and the future exists
Alive == constructed /\ ~crashed

\* ------------------------------------------------------------ primitives
\* a gate that every caller passes
OnceAlwaysFree == TRUE

\* sync.Once: the caller that finds the gate unclaimed runs the function
OnceFree == once = "free"

\* context.CancelFunc / parent expiry: the first cause sets Err() for good
CtxCancel(e) == IF ctxErr = Nil THEN e ELSE ctxErr

\* sync.Mutex
MuFree == mu = <<>>

\* callers are numbered in the order in which they make their call
NextWaiter(w) == \A v \in Waiters : v < w => wpc[v] # "idle"
NextAborter(a) == \A b \in Aborters : b < a => apc[b] # "idle"

\* the completion was published and only then Abort() was called
IsLate == done /\ aborted = "late"

\* ---------------------------------------------------------- construction
\* a constructor that starts the execution whatever the lazy option says
NewFutureAlwaysStarts(lz) ==
    /\ ~constructed
    /\ constructed' = TRUE
    /\ lazy' = lz
    /\ IF pkg = "A"
         THEN /\ once' = "done"
              /\ rpc' = [rpc EXCEPT ![0] = "spawned"]
         ELSE /\ rpc' = [rpc EXCEPT ![0] = "spawned"]
              /\ UNCHANGED once
    /\ UNCHANGED <<pkg, crashed, ctxErr, closed, done, mu, slotVars, taskVars,
                   waitVars, apc, aborted, extCancelled, obs,
                   calls, writes, closes>>

\* NewFuture(ctx, task, opts...): eager construction starts the execution
NewFuture(lz) ==
    /\ ~constructed
    /\ constructed' = TRUE
    /\ lazy' = lz
    /\ IF lz
         THEN UNCHANGED <<once, rpc>>
         ELSE IF pkg = "A"
                THEN /\ once' = "done"
                     /\ rpc' = [rpc EXCEPT ![0] = "spawned"]
                ELSE /\ rpc' = [rpc EXCEPT ![0] = "spawned"]
                     /\ UNCHANGED once
    /\ UNCHANGED <<pkg, crashed, ctxErr, closed, done, mu, slotVars, taskVars,
                   waitVars, apc, aborted, extCancelled, obs,
                   calls, writes, closes>>

\* the parent context passed to NewFuture is cancelled or reaches its deadline
ExternalCancel(e) ==
    /\ Alive
    /\ ~extCancelled
    /\ extCancelled' = TRUE
    /\ ctxErr' = CtxCancel(e)
    /\ UNCHANGED <<ctlVars, once, closed, done, mu, slotVars, rpc, taskVars,
                   waitVars, apc, aborted, obs, calls, writes, closes>>

\* ------------------------------------------------- the work function
\* the errors the work function can return: its own, or f.ctx.Err() once the
\* context it was given is cancelled
TaskErrs == {Nil, WorkErr} \cup {ctxErr}

\* f.task(f.ctx) / f.promise(f.ctx) returns (v, e)
TaskReturn(r, v, e) ==
    /\ Alive
    /\ rpc[r] = "intask"
    /\ e \in TaskErrs
    /\ tres' = [tres EXCEPT ![r] = v]
    /\ terr' = [terr EXCEPT ![r] = e]
    /\ rpc' = [rpc EXCEPT ![r] = "returned"]
    /\ UNCHANGED <<ctlVars, ctxErr, once, closed, done, mu, slotVars, tpanic,
                   waitVars, apc, aborted, extCancelled, obs,
                   calls, writes, closes>>

\* f.task(f.ctx) / f.promise(f.ctx) panics with m instead of returning
TaskPanic(r, m) ==
    /\ Alive
    /\ rpc[r] = "intask"
    /\ tpanic' = [tpanic EXCEPT ![r] = m]
    /\ rpc' = [rpc EXCEPT ![r] = "panicking"]
    /\ UNCHANGED <<ctlVars, ctxErr, once, closed, done, mu, slotVars, tres,
                   terr, waitVars, apc, aborted, extCancelled, obs,
                   calls, writes, closes>>

\* ------------------------------------------ package A: markDone, start
\* a markDone that claims f.closed but leaves the channel open
markDoneNoClose ==
    IF closed
      THEN UNCHANGED <<closed, done, closes>>
      ELSE /\ closed' = TRUE
           /\ UNCHANGED <<done, closes>>

\* a markDone that closes the channel without the f.closed gate
markDoneNoOnce ==
    /\ closed' = TRUE
    /\ done' = TRUE
    /\ closes' = closes + 1

\* markDone: f.closed.Do(func() { close(f.done) })
markDone ==
    IF closed
      THEN UNCHANGED <<closed, done, closes>>
      ELSE /\ closed' = TRUE
           /\ done' = TRUE
           /\ closes' = closes + 1

\* a start() that takes f.mu before it calls the task
StartInvokeLocked(r) ==
    /\ Alive /\ pkg = "A"
    /\ rpc[r] = "spawned"
    /\ MuFree
    /\ mu' = <<"run", r>>
    /\ calls' = calls + 1
    /\ rpc' = [rpc EXCEPT ![r] = "intask"]
    /\ UNCHANGED <<ctlVars, ctxErr, once, closed, done, slotVars, taskVars,
                   waitVars, apc, aborted, extCancelled, obs,
                   writes, closes>>

\* the goroutine of start() begins: res, err := f.task(f.ctx)
StartInvoke(r) ==
    /\ Alive /\ pkg = "A"
    /\ rpc[r] = "spawned"
    /\ calls' = calls + 1
    /\ rpc' = [rpc EXCEPT ![r] = "intask"]
    /\ UNCHANGED <<ctlVars, ctxErr, once, closed, done, mu, slotVars, taskVars,
                   waitVars, apc, aborted, extCancelled, obs,
                   writes, closes>>

\* f.mu.Lock() after the work function returned
StartLock(r) ==
    /\ Alive /\ pkg = "A"
    /\ rpc[r] = "returned"
    /\ MuFree
    /\ mu' = <<"run", r>>
    /\ rpc' = [rpc EXCEPT ![r] = "store"]
    /\ UNCHANGED <<ctlVars, ctxErr, once, closed, done, slotVars, taskVars,
                   waitVars, apc, aborted, extCancelled, obs,
                   calls, writes, closes>>

\* a store that drops the value whenever the error is not nil
StartStoreNilOnError(r) ==
    /\ Alive /\ pkg = "A"
    /\ rpc[r] = "store"
    /\ item' = IF terr[r] # Nil THEN Nil ELSE tres[r]
    /\ err' = terr[r]
    /\ writes' = writes + 1
    /\ mu' = <<>>
    /\ rpc' = [rpc EXCEPT ![r] = "mark"]
    /\ UNCHANGED <<ctlVars, ctxErr, once, closed, done, res, taskVars,
                   waitVars, apc, aborted, extCancelled, obs,
                   calls, closes>>

\* f.item, f.err = res, err; f.mu.Unlock()
StartStore(r) ==
    /\ Alive /\ pkg = "A"
    /\ rpc[r] = "store"
    /\ item' = tres[r]
    /\ err' = terr[r]
    /\ writes' = writes + 1
    /\ mu' = <<>>
    /\ rpc' = [rpc EXCEPT ![r] = "mark"]
    /\ UNCHANGED <<ctlVars, ctxErr, once, closed, done, res, taskVars,
                   waitVars, apc, aborted, extCancelled, obs,
                   calls, closes>>

\* the deferred function: r := recover(); r != nil; f.mu.Lock()
RecoverLock(r) ==
    /\ Alive /\ pkg = "A"
    /\ rpc[r] = "panicking"
    /\ MuFree
    /\ mu' = <<"run", r>>
    /\ rpc' = [rpc EXCEPT ![r] = "pstore"]
    /\ UNCHANGED <<ctlVars, ctxErr, once, closed, done, slotVars, taskVars,
                   waitVars, apc, aborted, extCancelled, obs,
                   calls, writes, closes>>

\* f.err = fmt.Errorf("panic occurred: %v", r); f.mu.Unlock()
RecoverStore(r) ==
    /\ Alive /\ pkg = "A"
    /\ rpc[r] = "pstore"
    /\ err' = PanicErr(tpanic[r])
    /\ writes' = writes + 1
    /\ mu' = <<>>
    /\ rpc' = [rpc EXCEPT ![r] = "mark"]
    /\ UNCHANGED <<ctlVars, ctxErr, once, closed, done, item, res, taskVars,
                   waitVars, apc, aborted, extCancelled, obs,
                   calls, closes>>

\* f.markDone() at the end of either path of the goroutine
StartMarkDone(r) ==
    /\ Alive /\ pkg = "A"
    /\ rpc[r] = "mark"
    /\ markDone
    /\ rpc' = [rpc EXCEPT ![r] = "finished"]
    /\ UNCHANGED <<ctlVars, ctxErr, once, mu, slotVars, taskVars,
                   waitVars, apc, aborted, extCancelled, obs,
                   calls, writes>>

\* ------------------------------------------------- package A: Result
\* f.once.Do(f.start): the first caller spawns the goroutine
ResultCall(w) ==
    /\ Alive /\ pkg = "A"
    /\ wpc[w] = "idle"
    /\ NextWaiter(w)
    /\ IF OnceFree
         THEN /\ once' = "done"
              /\ rpc' = [rpc EXCEPT ![w] = "spawned"]
         ELSE UNCHANGED <<once, rpc>>
    /\ lateCall' = [lateCall EXCEPT ![w] = IsLate]
    /\ wpc' = [wpc EXCEPT ![w] = "wait"]
    /\ UNCHANGED <<ctlVars, ctxErr, closed, done, mu, slotVars, taskVars, ret,
                   apc, aborted, extCancelled, obs, calls, writes, closes>>

\* a Result() that takes the lock without receiving from f.done
ResultWaitNoBlock(w) ==
    /\ Alive /\ pkg = "A"
    /\ wpc[w] = "wait"
    /\ MuFree
    /\ mu' = <<"wait", w>>
    /\ wpc' = [wpc EXCEPT ![w] = "read"]
    /\ UNCHANGED <<ctlVars, ctxErr, once, closed, done, slotVars, rpc,
                   taskVars, ret, lateCall, apc, aborted, extCancelled,
                   obs, calls, writes, closes>>

\* <-f.done; f.mu.Lock()
ResultWait(w) ==
    /\ Alive /\ pkg = "A"
    /\ wpc[w] = "wait"
    /\ done
    /\ MuFree
    /\ mu' = <<"wait", w>>
    /\ wpc' = [wpc EXCEPT ![w] = "read"]
    /\ UNCHANGED <<ctlVars, ctxErr, once, closed, done, slotVars, rpc,
                   taskVars, ret, lateCall, apc, aborted, extCancelled,
                   obs, calls, writes, closes>>

\* return f.item, f.err (and the deferred f.mu.Unlock())
ResultReturn(w) ==
    /\ Alive /\ pkg = "A"
    /\ wpc[w] = "read"
    /\ ret' = [ret EXCEPT ![w] = <<item, err>>]
    /\ mu' = <<>>
    /\ wpc' = [wpc EXCEPT ![w] = "returned"]
    /\ UNCHANGED <<ctlVars, ctxErr, once, closed, done, slotVars, rpc,
                   taskVars, lateCall, apc, aborted, extCancelled,
                   obs, calls, writes, closes>>

\* -------------------------------------------------- package A: Abort
\* f.mu.Lock()
AbortLock(a) ==
    /\ Alive /\ pkg = "A"
    /\ apc[a] = "idle"
    /\ NextAborter(a)
    /\ MuFree
    /\ mu' = <<"abort", a>>
    /\ apc' = [apc EXCEPT ![a] = "select"]
    /\ UNCHANGED <<ctlVars, ctxErr, once, closed, done, slotVars, rpc,
                   taskVars, waitVars, aborted, extCancelled, obs,
                   calls, writes, closes>>

\* an Abort that takes the default branch whatever the state of f.done
AbortSelectNoCheck(a) ==
    /\ Alive /\ pkg = "A"
    /\ apc[a] = "select"
    /\ apc' = [apc EXCEPT ![a] = "cancel"]
    /\ UNCHANGED <<ctlVars, ctxErr, once, closed, done, mu, slotVars, rpc,
                   taskVars, waitVars, aborted, extCancelled, obs,
                   calls, writes, closes>>

\* select { case <-f.done: return (and the deferred Unlock); default: ... }
AbortSelect(a) ==
    /\ Alive /\ pkg = "A"
    /\ apc[a] = "select"
    /\ IF done
         THEN /\ aborted' = IF aborted = "no" THEN "late" ELSE aborted
              /\ mu' = <<>>
              /\ apc' = [apc EXCEPT ![a] = "returned"]
         ELSE /\ apc' = [apc EXCEPT ![a] = "cancel"]
              /\ UNCHANGED <<aborted, mu>>
    /\ UNCHANGED <<ctlVars, ctxErr, once, closed, done, slotVars, rpc,
                   taskVars, waitVars, extCancelled, obs,
                   calls, writes, closes>>

\* an Abort() that cancels and signals without writing the outcome
AbortStoreNoWrite(a) ==
    /\ Alive /\ pkg = "A"
    /\ apc[a] = "cancel"
    /\ ctxErr' = CtxCancel(Canceled)
    /\ markDone
    /\ aborted' = "early"
    /\ mu' = <<>>
    /\ apc' = [apc EXCEPT ![a] = "returned"]
    /\ UNCHANGED <<ctlVars, once, slotVars, writes, rpc, taskVars, waitVars,
                   extCancelled, obs, calls>>

\* default: f.cancel(); f.item, f.err = nil, context.Canceled; f.markDone()
\* (and the deferred Unlock)
AbortStore(a) ==
    /\ Alive /\ pkg = "A"
    /\ apc[a] = "cancel"
    /\ ctxErr' = CtxCancel(Canceled)
    /\ item' = Nil
    /\ err' = Canceled
    /\ writes' = writes + 1
    /\ markDone
    /\ aborted' = "early"
    /\ mu' = <<>>
    /\ apc' = [apc EXCEPT ![a] = "returned"]
    /\ UNCHANGED <<ctlVars, once, res, rpc, taskVars, waitVars, extCancelled,
                   obs, calls>>

\* ------------------------------------------- package future: run, Await
\* f.once.Do(func() { ... f.promise(f.ctx) ... }): the goroutine that claims
\* the gate invokes the promise; one that finds Do finished returns; one that
\* finds Do in progress blocks until then
RunOnce(r) ==
    /\ Alive /\ pkg = "future"
    /\ rpc[r] = "spawned"
    /\ IF OnceFree
         THEN /\ once' = "running"
              /\ calls' = calls + 1
              /\ rpc' = [rpc EXCEPT ![r] = "intask"]
         ELSE /\ once = "done"
              /\ rpc' = [rpc EXCEPT ![r] = "skipped"]
              /\ UNCHANGED <<once, calls>>
    /\ UNCHANGED <<ctlVars, ctxErr, closed, done, mu, slotVars, taskVars,
                   waitVars, apc, aborted, extCancelled, obs,
                   writes, closes>>

\* run() has no recover: a panic of the promise leaves the goroutine and
\* terminates the process
RunPanic(r) ==
    /\ Alive /\ pkg = "future"
    /\ rpc[r] = "panicking"
    /\ crashed' = TRUE
    /\ rpc' = [rpc EXCEPT ![r] = "crashed"]
    /\ UNCHANGED <<pkg, constructed, lazy, ctxErr, once, closed, done, mu,
                   slotVars, taskVars, waitVars, apc, aborted, extCancelled,
                   obs, calls, writes, closes>>

\* a run() that never stores the value
RunStoreResSkip(r) ==
    /\ Alive /\ pkg = "future"
    /\ rpc[r] = "returned"
    /\ rpc' = [rpc EXCEPT ![r] = "storeErr"]
    /\ UNCHANGED <<ctlVars, ctxErr, once, closed, done, mu, slotVars,
                   taskVars, waitVars, apc, aborted, extCancelled, obs,
                   calls, writes, closes>>

\* if res != nil { f.res.Store(res) }
RunStoreRes(r) ==
    /\ Alive /\ pkg = "future"
    /\ rpc[r] = "returned"
    /\ IF tres[r] # Nil
         THEN res' = tres[r] /\ writes' = writes + 1
         ELSE UNCHANGED <<res, writes>>
    /\ rpc' = [rpc EXCEPT ![r] = "storeErr"]
    /\ UNCHANGED <<ctlVars, ctxErr, once, closed, done, mu, item, err,
                   taskVars, waitVars, apc, aborted, extCancelled, obs,
                   calls, closes>>

\* if err != nil { f.err.Store(err) }
RunStoreErr(r) ==
    /\ Alive /\ pkg = "future"
    /\ rpc[r] = "storeErr"
    /\ IF terr[r] # Nil
         THEN err' = terr[r] /\ writes' = writes + 1
         ELSE UNCHANGED <<err, writes>>
    /\ rpc' = [rpc EXCEPT ![r] = "close"]
    /\ UNCHANGED <<ctlVars, ctxErr, once, closed, done, mu, item, res,
                   taskVars, waitVars, apc, aborted, extCancelled, obs,
                   calls, closes>>

\* close(f.done), the end of the function given to once.Do; closing a closed
\* channel panics
RunClose(r) ==
    /\ Alive /\ pkg = "future"
    /\ rpc[r] = "close"
    /\ IF done
         THEN /\ crashed' = TRUE
              /\ rpc' = [rpc EXCEPT ![r] = "crashed"]
              /\ UNCHANGED <<done, once>>
         ELSE /\ done' = TRUE
              /\ once' = "done"
              /\ rpc' = [rpc EXCEPT ![r] = "finished"]
              /\ UNCHANGED crashed
    /\ closes' = closes + 1
    /\ UNCHANGED <<pkg, constructed, lazy, ctxErr, closed, mu, slotVars,
                   taskVars, waitVars, apc, aborted, extCancelled, obs,
                   calls, writes>>

\* Await: if f.lazy { go f.run() }
AwaitCall(w) ==
    /\ Alive /\ pkg = "future"
    /\ wpc[w] = "idle"
    /\ NextWaiter(w)
    /\ IF lazy
         THEN rpc' = [rpc EXCEPT ![w] = "spawned"]
         ELSE UNCHANGED rpc
    /\ lateCall' = [lateCall EXCEPT ![w] = IsLate]
    /\ wpc' = [wpc EXCEPT ![w] = "select"]
    /\ UNCHANGED <<ctlVars, ctxErr, once, closed, done, mu, slotVars, taskVars,
                   ret, apc, aborted, extCancelled, obs,
                   calls, writes, closes>>

\* select case <-f.done: return f.res.Load(), f.err.Load()
AwaitDone(w) ==
    /\ Alive /\ pkg = "future"
    /\ wpc[w] = "select"
    /\ done
    /\ ret' = [ret EXCEPT ![w] = <<res, err>>]
    /\ wpc' = [wpc EXCEPT ![w] = "returned"]
    /\ UNCHANGED <<ctlVars, ctxErr, once, closed, done, mu, slotVars, rpc,
                   taskVars, lateCall, apc, aborted, extCancelled, obs,
                   calls, writes, closes>>

\* an Await whose select has no case for f.ctx.Done()
AwaitCtxMissing(w) ==
    /\ FALSE
    /\ UNCHANGED vars

\* select case <-f.ctx.Done(): return nil, f.ctx.Err()
\* (select takes any of its ready cases)
AwaitCtx(w) ==
    /\ Alive /\ pkg = "future"
    /\ wpc[w] = "select"
    /\ ctxErr # Nil
    /\ ret' = [ret EXCEPT ![w] = <<Nil, ctxErr>>]
    /\ wpc' = [wpc EXCEPT ![w] = "returned"]
    /\ UNCHANGED <<ctlVars, ctxErr, once, closed, done, mu, slotVars, rpc,
                   taskVars, lateCall, apc, aborted, extCancelled, obs,
                   calls, writes, closes>>

\* Abort: f.cancel()
AbortCancel(a) ==
    /\ Alive /\ pkg = "future"
    /\ apc[a] = "idle"
    /\ NextAborter(a)
    /\ ctxErr' = CtxCancel(Canceled)
    /\ aborted' = IF aborted # "no" THEN aborted
                  ELSE IF done THEN "late" ELSE "early"
    /\ apc' = [apc EXCEPT ![a] = "returned"]
    /\ UNCHANGED <<ctlVars, once, closed, done, mu, slotVars, rpc, taskVars,
                   waitVars, extCancelled, obs, calls, writes, closes>>

\* ---------------------------------------------------------- observers
\* Ready (package A): select { case <-f.done: true; default: false }
Ready ==
    /\ Alive /\ pkg = "A"
    /\ obs' = IF done THEN "ready" ELSE "notready"
    /\ UNCHANGED <<ctlVars, ctxErr, once, closed, done, mu, slotVars, rpc,
                   taskVars, waitVars, apc, aborted, extCancelled,
                   calls, writes, closes>>

\* Done: return f.done
Done ==
    /\ Alive
    /\ obs' = "held"
    /\ UNCHANGED <<ctlVars, ctxErr, once, closed, done, mu, slotVars, rpc,
                   taskVars, waitVars, apc, aborted, extCancelled,
                   calls, writes, closes>>

\* <-f.Done() in the caller
DoneRecv ==
    /\ Alive
    /\ obs = "held"
    /\ done
    /\ obs' = "signaled"
    /\ UNCHANGED <<ctlVars, ctxErr, once, closed, done, mu, slotVars, rpc,
                   taskVars, waitVars, apc, aborted, extCancelled,
                   calls, writes, closes>>

\* ------------------------------------------------------- specification
Next ==
    \/ \E lz \in BOOLEAN : NewFuture(lz)
    \/ \E e \in {Canceled, DeadlineExceeded} : ExternalCancel(e)
    \/ \E r \in Runners, v \in Values \cup {Nil}, e \in Errs :
           TaskReturn(r, v, e)
    \/ \E r \in Runners, m \in PanicMsgs : TaskPanic(r, m)
    \/ \E r \in Runners : StartInvoke(r)
    \/ \E r \in Runners : StartLock(r)
    \/ \E r \in Runners : StartStore(r)
    \/ \E r \in Runners : RecoverLock(r)
    \/ \E r \in Runners : RecoverStore(r)
    \/ \E r \in Runners : StartMarkDone(r)
    \/ \E w \in Waiters : ResultCall(w)
    \/ \E w \in Waiters : ResultWait(w)
    \/ \E w \in Waiters : ResultReturn(w)
    \/ \E a \in Aborters : AbortLock(a)
    \/ \E a \in Aborters : AbortSelect(a)
    \/ \E a \in Aborters : AbortStore(a)
    \/ \E r \in Runners : RunOnce(r)
    \/ \E r \in Runners : RunPanic(r)
    \/ \E r \in Runners : RunStoreRes(r)
    \/ \E r \in Runners : RunStoreErr(r)
    \/ \E r \in Runners : RunClose(r)
    \/ \E w \in Waiters : AwaitCall(w)
    \/ \E w \in Waiters : AwaitDone(w)
    \/ \E w \in Waiters : AwaitCtx(w)
    \/ \E a \in Aborters : AbortCancel(a)
    \/ Ready
    \/ Done
    \/ DoneRecv

Spec == Init /\ [][Next]_vars

\* the steps the Go scheduler owes to a goroutine that is able to run:
\* those of the execution goroutines, of a caller inside Result()/Await()
\* and of a caller inside Abort(); calls themselves, the work function's
\* return and the parent context are up to the environment
RunnerStep(r) ==
    \/ StartInvoke(r) \/ StartLock(r) \/ StartStore(r)
    \/ RecoverLock(r) \/ RecoverStore(r) \/ StartMarkDone(r)
    \/ RunOnce(r) \/ RunPanic(r)
    \/ RunStoreRes(r) \/ RunStoreErr(r) \/ RunClose(r)

WaiterStep(w) ==
    ResultWait(w) \/ ResultReturn(w) \/ AwaitDone(w) \/ AwaitCtx(w)

AborterStep(a) == AbortSelect(a) \/ AbortStore(a)

Fairness ==
    /\ \A r \in Runners : WF_vars(RunnerStep(r))
    /\ \A w \in Waiters : WF_vars(WaiterStep(w))
    /\ \A a \in Aborters : WF_vars(AborterStep(a))

FairSpec == Init /\ [][Next]_vars /\ Fairness

TypeOK ==
    /\ pkg \in Pkgs
    /\ once \in {"free", "running", "done"}
    /\ aborted \in {"no", "early", "late"}
    /\ calls \in Nat /\ writes \in Nat /\ closes \in Nat

\* =================================================================
\* Properties
\* =================================================================

\* some caller has demanded the result, or construction was eager
Demanded == constructed /\ (~lazy \/ \E w \in Waiters : wpc[w] # "idle")

\* what the completion path of goroutine r stores in package A
Outcome(r) ==
    IF tpanic[r] # Nil THEN <<Nil, PanicErr(tpanic[r])>>
                       ELSE <<tres[r], terr[r]>>

AbortReturned == \E a \in Aborters : apc[a] = "returned"

\* C1: in both variants the work function is never invoked a second time,
\* whatever the interleaving of construction and Result()/Await() calls and
\* whatever the first run's outcome; once execution was demanded and no
\* spawned goroutine is still waiting at the gate, it was invoked exactly once.
SingleExecution ==
    /\ calls <= 1
    /\ (Demanded /\ \A r \in Runners : rpc[r] # "spawned") => calls = 1

\* two Result() calls have returned from a lazy package-A future whose single
\* run ended in an error
SingleExecutionWitness ==
    /\ pkg = "A" /\ lazy
    /\ \A w \in Waiters : wpc[w] = "returned"
    /\ \E r \in Runners : rpc[r] = "finished" /\ terr[r] # Nil
    /\ calls = 1

\* C2: in package A the result slot (item, err) is assigned at most once over
\* the lifetime of the future, whichever of completion and Abort() runs first.
SingleWriter == pkg = "A" => writes <= 1

\* C3: in package A any two Result() calls that have returned, returned the
\* identical (item, err) pair.
ObserversAgree ==
    pkg = "A" =>
        \A w1, w2 \in Waiters :
            (wpc[w1] = "returned" /\ wpc[w2] = "returned") => ret[w1] = ret[w2]

\* C4: in package A, once an Abort() has cancelled the future before the latch
\* was signaled, every Result() call that returns afterwards returns
\* (nil, context.Canceled).
CancellationOutcome ==
    [][\A w \in Waiters :
          (pkg = "A" /\ aborted = "early"
             /\ wpc[w] = "read" /\ wpc'[w] = "returned")
          => ret'[w] = <<Nil, Canceled>>]_vars

\* C5: in package A, an Abort() that finds the done channel closed changes
\* neither item nor err, and a Result() call made after completion followed by
\* such an Abort() returns the outcome the completion path stored.
PostCompletionAbortNoop ==
    [][/\ \A a \in Aborters :
             (pkg = "A" /\ done /\ apc[a] = "select" /\ apc'[a] # "select")
             => (apc'[a] = "returned" /\ item' = item /\ err' = err
                   /\ done' /\ closes' = closes /\ writes' = writes)
       /\ \A w \in Waiters :
             (pkg = "A" /\ lateCall[w]
                /\ wpc[w] = "read" /\ wpc'[w] = "returned")
             => \E r \in Runners :
                    rpc[r] = "finished" /\ ret'[w] = Outcome(r)]_vars

\* the work function returned ("42", nil), Abort() came after the latch, and a
\* Result() call made after that Abort() returned ("42", nil)
PostCompletionAbortNoopWitness ==
    /\ pkg = "A" /\ aborted = "late" /\ AbortReturned
    /\ \E w \in Waiters :
           wpc[w] = "returned" /\ lateCall[w] /\ ret[w] = <<"42", Nil>>

\* C6: in package future, an Await() call made after the promise completed
\* and Abort() was then called returns the stored (res, err), never the
\* context error.
AwaitAfterLateAbort ==
    \A w \in Waiters :
        (pkg = "future" /\ ~extCancelled /\ lateCall[w] /\ wpc[w] = "returned")
        => ret[w] = <<res, err>>

\* C7: in package A, when the work function panics and no Abort() cancels the
\* future, the process keeps running, the goroutine closes the done channel,
\* and every Result() call returns (nil, "panic occurred: <message>").
FaultContainment ==
    pkg = "A" =>
        /\ ~crashed
        /\ \A r \in Runners :
               (tpanic[r] = "unexpected error" /\ aborted # "early") =>
                   /\ rpc[r] = "finished" => done
                   /\ \A w \in Waiters :
                          wpc[w] = "returned" =>
                              ret[w] = <<Nil, "panic occurred: unexpected error">>

\* the work function panicked, nobody aborted, and every Result() returned
FaultContainmentWitness ==
    /\ pkg = "A" /\ aborted = "no"
    /\ \E r \in Runners : tpanic[r] # Nil /\ rpc[r] = "finished"
    /\ \A w \in Waiters : wpc[w] = "returned"

\* C8: in package future, a panic of the promise is recovered inside run():
\* it never terminates the process.
AwaitFaultContainment ==
    (pkg = "future" /\ \E r \in Runners : tpanic[r] # Nil) => ~crashed

\* C9: in both variants, a lazy future on which no Result()/Await() call has
\* been made has not invoked its work function nor spawned a goroutine for
\* it, whatever construction, Ready(), Done() and Abort() calls were made.
LazyDeferral ==
    (constructed /\ lazy /\ \A w \in Waiters : wpc[w] = "idle")
    => (calls = 0 /\ once = "free" /\ \A r \in Runners : rpc[r] = "idle")

\* a lazy package-A future that was aborted by every aborter and whose Done()
\* channel was received from, never queried
LazyDeferralWitness ==
    /\ pkg = "A" /\ constructed /\ lazy
    /\ \A w \in Waiters : wpc[w] = "idle"
    /\ \A a \in Aborters : apc[a] = "returned"
    /\ obs = "signaled"
    /\ calls = 0

\* C10 as stated: in both variants, once an Abort() call has returned the
\* done channel is closed.
AbortOpensLatch == AbortReturned => done

\* C10 as amended: once an Abort() call has returned, the done channel is
\* closed in package A; in package future the context is cancelled (and the
\* done channel is closed only by run()).
AbortOpensLatchOrCancels ==
    AbortReturned =>
        /\ pkg = "A" => done
        /\ pkg = "future" => ctxErr # Nil

\* Abort() has returned and the latch is signaled while the work function of
\* the package-A future is still running
AbortOpensLatchWitness ==
    /\ pkg = "A" /\ AbortReturned /\ done
    /\ \E r \in Runners : rpc[r] = "intask"

\* the steps by which a blocked Result()/Await() call gets past its wait
WaitStep(w) == ResultWait(w) \/ AwaitDone(w) \/ AwaitCtx(w)

\* caller w is blocked in its wait and no result has been published
BlockedNoResult(w) == wpc[w] \in {"wait", "select"} /\ ~done

\* C11 as stated: in both variants, once the parent context has expired while
\* a Result()/Await() call is blocked and no result is published, that call
\* can return at once, without any step of the work function.
ExternalExpiryUnblocks ==
    \A w \in Waiters :
        (extCancelled /\ ~crashed /\ BlockedNoResult(w))
        => ENABLED WaitStep(w)

\* C11 as amended: in package future only, such a blocked Await() call can
\* return at once, and when it returns while no result is published it
\* returns (nil, f.ctx.Err()); Result() of package A waits for done alone.
ExternalExpiryUnblocksAwait ==
    /\ [](\A w \in Waiters :
            (pkg = "future" /\ extCancelled /\ ~crashed /\ BlockedNoResult(w))
            => ENABLED AwaitCtx(w))
    /\ [][\A w \in Waiters :
            (pkg = "future" /\ extCancelled /\ BlockedNoResult(w)
               /\ wpc'[w] = "returned")
            => ret'[w] = <<Nil, ctxErr>>]_vars

\* the parent's deadline expired while the promise was running; Await()
\* returned the deadline error and the promise is still running
ExternalExpiryUnblocksWitness ==
    /\ pkg = "future" /\ extCancelled /\ aborted = "no" /\ ~done
    /\ \E r \in Runners : rpc[r] = "intask"
    /\ \E w \in Waiters :
           wpc[w] = "returned" /\ ret[w] = <<Nil, DeadlineExceeded>>

\* goroutine r invoked the work function and it returned (tres[r], terr[r])
Returned(r) ==
    /\ tpanic[r] = Nil
    /\ rpc[r] \in {"returned", "store", "mark", "storeErr", "close", "finished"}

\* the work function has returned a value or an error
WorkReturned == \E r \in Runners : Returned(r)

AbortCalled == \E a \in Aborters : apc[a] # "idle"

\* C12: in both variants, under fair scheduling, a Result()/Await() call that
\* has been made returns eventually once the work function has returned or
\* Abort() has been called.
WaitersReturn ==
    \A w \in Waiters :
        (wpc[w] # "idle" /\ (WorkReturned \/ AbortCalled))
        ~> (wpc[w] = "returned")

\* C13: in both variants, once a first Abort() has returned, no step of any
\* further Abort() call changes the future: the result, the latch, the
\* context error and the count of close(done) stay as they are and the
\* process does not panic; and a further call always gets to return.
AbortIdempotent ==
    /\ [][\A a \in Aborters :
            (aborted # "no" /\ apc'[a] # apc[a])
            => /\ UNCHANGED <<item, res, err, done, closed, closes, writes,
                              ctxErr, crashed, aborted>>
               /\ apc'[a] \in {"select", "returned"}]_vars
    /\ [](\A a \in Aborters :
            (apc[a] \in {"select", "cancel"} /\ ~crashed)
            => ENABLED AborterStep(a))

\* every Abort() call has returned, the first one having cancelled the
\* package-A future, and done was closed once
AbortIdempotentWitness ==
    /\ pkg = "A" /\ aborted = "early"
    /\ \A a \in Aborters : apc[a] = "returned"
    /\ done /\ closes = 1

\* no Abort() call was made and the parent context is live
NoCancellation == aborted = "no" /\ ~AbortCalled /\ ~extCancelled

\* the pair a waiter reads: (item, err) in package A, (res, err) in future
Slot == IF pkg = "A" THEN <<item, err>> ELSE <<res, err>>

\* C14: in both variants, while there is no cancellation, every
\* Result()/Await() call that has returned from a future whose work function
\* returned (v, nil) has returned exactly (v, nil).
OwnOutcome ==
    \A r \in Runners :
        (Returned(r) /\ terr[r] = Nil /\ NoCancellation) =>
            \A w \in Waiters :
                wpc[w] = "returned" => ret[w] = <<tres[r], Nil>>

\* every Await() call on a lazy package-future whose promise returned
\* ("42", nil) has returned ("42", nil)
OwnOutcomeWitness ==
    /\ pkg = "future" /\ lazy /\ NoCancellation
    /\ \A w \in Waiters : wpc[w] = "returned" /\ ret[w] = <<"42", Nil>>

\* C15 as stated: in both variants, while there is no cancellation, a work
\* function that returned a non-nil error e leads to the stored outcome
\* (nil, e), which is what every returned Result()/Await() call got.
ErrorOutcomeNilValue ==
    \A r \in Runners :
        (Returned(r) /\ terr[r] # Nil /\ NoCancellation) =>
            /\ rpc[r] = "finished" => Slot = <<Nil, terr[r]>>
            /\ \A w \in Waiters :
                   wpc[w] = "returned" => ret[w] = <<Nil, terr[r]>>

\* C15 as amended: the stored and returned outcome is (v, e) as the work
\* function returned it; its value is nil only when v is nil.
ErrorOutcomeVerbatim ==
    \A r \in Runners :
        (Returned(r) /\ terr[r] # Nil /\ NoCancellation) =>
            /\ rpc[r] = "finished" => Slot = <<tres[r], terr[r]>>
            /\ \A w \in Waiters :
                   wpc[w] = "returned" => ret[w] = <<tres[r], terr[r]>>

\* the work function of a package-A future returned ("42", "boom") and a
\* Result() call returned that pair
ErrorOutcomeVerbatimWitness ==
    /\ pkg = "A" /\ NoCancellation
    /\ \E r \in Runners : rpc[r] = "finished" /\ terr[r] = WorkErr
    /\ \E w \in Waiters : wpc[w] = "returned" /\ ret[w] = <<"42", WorkErr>>

\* the work function of some goroutine has returned or panicked
WorkFinished == \E r \in Runners : Returned(r) \/ tpanic[r] # Nil

\* some Result()/Await() call has returned
SomeReturned == \E w \in Waiters : wpc[w] = "returned"

\* C16 as stated: in both variants, whenever a Result()/Await() call has
\* returned the done channel is closed, and the done channel is open in every
\* state in which neither the work function has finished nor Abort() has been
\* called.
ReturnImpliesDone ==
    /\ SomeReturned => done
    /\ ~(WorkFinished \/ AbortCalled) => ~done

\* C16 as amended: a returned Result() call (package A), or a returned
\* Await() call while f.ctx is not cancelled (package future), implies that
\* done is closed: a Done() handle obtained earlier can be received from, and
\* every Ready() call made from then on answers true.  While neither the work
\* function has finished nor Abort() has been called, done is open and no
\* Ready() call has answered true and no Done() handle has been signaled.
ReturnImpliesDoneUnlessCtx ==
    /\ []((SomeReturned /\ (pkg = "A" \/ ctxErr = Nil)) => done)
    /\ []((SomeReturned /\ (pkg = "A" \/ ctxErr = Nil) /\ obs = "held" /\ ~crashed)
            => ENABLED DoneRecv)
    /\ [][(SomeReturned /\ pkg = "A" /\ obs' # obs /\ obs' \in {"ready", "notready"})
            => obs' = "ready"]_vars
    /\ [](~(WorkFinished \/ AbortCalled)
            => (~done /\ obs \notin {"ready", "signaled"}))

\* a Result() call of package A has returned and a later Ready() call
\* answered true
ReturnImpliesDoneWitness ==
    /\ pkg = "A" /\ SomeReturned /\ obs = "ready" /\ aborted = "no"

\* C17: in package A, once the done channel is closed no step makes the
\* work function begin executing; in particular a Result() call that follows
\* an Abort() on a lazy future does not start it.
CompletedTerminal ==
    [][(pkg = "A" /\ done) => calls' = calls]_vars

\* C18: in both variants close(done) is executed at most once over normal
\* completion, panic capture and any number of Abort() calls: every close
\* happens on an open channel, and a closed channel stays closed.
LatchOnce ==
    [][/\ closes' <= 1
       /\ done => done'
       /\ closes' # closes => (~done /\ done' /\ closes' = closes + 1)
       /\ done' # done => closes' = closes + 1]_vars

\* in package A two Abort() calls and the goroutine that recovered a panic
\* have all gone through markDone, and done was closed once
LatchOnceWitness ==
    /\ pkg = "A" /\ done /\ closes = 1 /\ aborted = "early"
    /\ \A a \in Aborters : apc[a] = "returned"
    /\ \E r \in Runners : rpc[r] = "finished" /\ tpanic[r] # Nil

\* the outcomes that some path has stored in full: the pair the work function
\* returned, the error made from its panic, and the cancellation outcome of
\* an Abort() that won the race (package A only)
StoredOutcomes ==
    {<<tres[r], terr[r]>> : r \in {q \in Runners :
          tpanic[q] = Nil /\ rpc[q] \in {"mark", "close", "finished"}}}
    \cup {<<Nil, PanicErr(tpanic[r])>> : r \in {q \in Runners :
          tpanic[q] # Nil /\ rpc[q] \in {"mark", "finished"}}}
    \cup (IF pkg = "A" /\ aborted = "early" THEN {<<Nil, Canceled>>} ELSE {})

\* C19: in both variants, in every state in which the done channel is
\* closed the slot a waiter reads holds an outcome that was stored in full
\* before the close, by the normal-return path, the panic path or Abort().
WriteBeforeLatch ==
    done => /\ Slot \in StoredOutcomes
            /\ pkg = "A" => writes >= 1

\* Abort() closed done of a package-A future whose task had not returned,
\* and a Result() call released by the latch holds the lock to read
\* (nil, context.Canceled)
WriteBeforeLatchWitness ==
    /\ pkg = "A" /\ done /\ aborted = "early"
    /\ Slot = <<Nil, Canceled>>
    /\ \A r \in Runners : rpc[r] \notin {"mark", "finished"}
    /\ \E w \in Waiters : wpc[w] = "read"

\* the step with which the holder of f.mu goes on to release it
HolderStep ==
    \/ \E r \in Runners : mu = <<"run", r>> /\ (StartStore(r) \/ RecoverStore(r))
    \/ \E w \in Waiters : mu = <<"wait", w>> /\ ResultReturn(w)
    \/ \E a \in Aborters : mu = <<"abort", a>> /\ AborterStep(a)

\* C20: in package A no thread holds f.mu while it executes the work
\* function or while it is blocked on the done channel: the holder is a
\* goroutine writing item/err, a Result() call reading them or an Abort()
\* call publishing, and the holder can always take the step that releases
\* f.mu, so nothing deadlocks on it.
NoLockAcrossWork ==
    pkg = "A" =>
        /\ \A r \in Runners :
               mu = <<"run", r>> => rpc[r] \in {"store", "pstore"}
        /\ \A w \in Waiters : mu = <<"wait", w>> => wpc[w] = "read"
        /\ \A a \in Aborters :
               mu = <<"abort", a>> => apc[a] \in {"select", "cancel"}
        /\ (mu # <<>> /\ ~crashed) => ENABLED HolderStep

\* the task of a package-A future is executing and a Result() call is
\* blocked on done while an Abort() call holds f.mu to publish
NoLockAcrossWorkWitness ==
    /\ pkg = "A" /\ ~done
    /\ \E r \in Runners : rpc[r] = "intask"
    /\ \E w \in Waiters : wpc[w] = "wait"
    /\ \E a \in Aborters : mu = <<"abort", a>> /\ apc[a] = "cancel"

====
